---- MODULE Spec2Model ----
(***************************************************************************)
(* Model of src/main.py: the FastAPI backend of the smart media bot.       *)
(*                                                                         *)
(* The process runs one asyncio event loop.  A coroutine (an endpoint      *)
(* handler) runs on the loop until it awaits; work handed to               *)
(* run_in_executor runs in a thread beside the loop.  Every action below   *)
(* is one such uninterrupted piece of a handler or of a worker thread.     *)
(* `loop` names the handler that occupies the event loop across a          *)
(* blocking call; NoOne means the loop can pick up the next request.       *)
(***************************************************************************)
EXTENDS Naturals, Sequences, FiniteSets

VARIABLES
    bot,            \* main.py:42   TRUE iff BOT_TOKEN was set
    loop,           \* the handler blocking the event loop, or NoOne
    download_dir,   \* main.py:35   the files present in DOWNLOAD_DIR
    req,            \* per HTTP request in flight: /file and /download handlers
    hook,           \* per chat: the /telegram/webhook handler in flight
    nreq,           \* number of /file and /download requests accepted so far
    nevt,           \* number of webhook deliveries accepted so far
    resolved,       \* history: ids for which a webhook resolution succeeded
    served          \* history: ids a /file request downloaded and served

vars == <<bot, loop, download_dir, req, hook, nreq, nevt, resolved, served>>

----------------------------------------------------------------------------
(* Bounds of the model *)

\* requests accepted in a run, webhook deliveries accepted in a run
MaxRequests == 4
MaxEvents == 3

\* HTTP requests in flight at once, chats with a delivery in flight at once
NumReqs == 2
NumChats == 2

ReqNames == <<"r1", "r2", "r3", "r4">>
ChatNames == <<"c1", "c2", "c3", "c4">>

Reqs == { ReqNames[i] : i \in 1..NumReqs }
Chats == { ChatNames[i] : i \in 1..NumChats }

NoOne == "no_one"
NoDetail == "none"
NoPath == <<>>

\* the contents str(e) of the exceptions the engine or the transport raise
ExcDetails == {"e1", "e2"}

----------------------------------------------------------------------------
(* /file/{video_id}: ids, paths *)

IdChars == {"a", "b", "x", "_"}

\* main.py:191  re.fullmatch(r"[A-Za-z0-9_-]{4,}", video_id)
ValidVideoId(video_id) ==
    /\ Len(video_id) >= 4
    /\ \A i \in 1..Len(video_id) : video_id[i] \in IdChars

VideoIds == { <<"a", "b", "a", "b">>, <<"x", "_", "x", "_">>,
              <<"a", "b">>, <<"a", "!", "a", "b">> }

ValidIds == { v \in VideoIds : ValidVideoId(v) }

Exts == {"mp4", "webm"}

\* main.py:128  out_dir / "%(id)s.%(ext)s"; main.py:194  DOWNLOAD_DIR / f"{video_id}.mp4"
FilePath(id, ext) == <<id, ext>>

\* main.py:143-145  path.endswith(".mp4"), os.path.splitext(path)[0] + ".mp4"
EndsWithMp4(path) == path[2] = "mp4"
Mp4Name(path) == FilePath(path[1], "mp4")

IdleReq == [pc |-> "idle", video_id |-> <<>>, path |-> NoPath, raised |-> NoDetail,
            status |-> 0, detail |-> NoDetail, sent |-> NoPath, cached |-> FALSE]

\* Cached with the existence test lost: every request downloads
CachedNever(video_id) == FALSE

\* main.py:195  file_path.exists()
Cached(video_id) == FilePath(video_id, "mp4") \in download_dir

\* what extract_info(url, download=True) and prepare_filename can give for a
\* source id: the extension of the file written and the extension reported.
\* With merge_output_format the merged file is .mp4 whatever was reported.
EngineResults == { o \in [actual : Exts, reported : Exts] :
                       o.actual = o.reported \/ o.actual = "mp4" }

----------------------------------------------------------------------------
(* GET /file/{video_id} *)

\* main.py:186-202  up to the await of run_in_executor
stream_file(r, video_id) ==
    /\ req[r].pc = "idle"
    /\ loop = NoOne
    /\ nreq < MaxRequests
    /\ nreq' = nreq + 1
    /\ IF ~ValidVideoId(video_id)
         THEN req' = [req EXCEPT ![r] = [IdleReq EXCEPT !.pc = "done",
                          !.video_id = video_id, !.status = 400]]
         ELSE IF Cached(video_id)
                THEN req' = [req EXCEPT ![r] = [IdleReq EXCEPT !.pc = "done",
                                 !.video_id = video_id, !.status = 200,
                                 !.sent = FilePath(video_id, "mp4"), !.cached = TRUE]]
                ELSE req' = [req EXCEPT ![r] = [IdleReq EXCEPT !.pc = "extract",
                                 !.video_id = video_id]]
    /\ UNCHANGED <<bot, loop, download_dir, hook, nevt, resolved, served>>

\* main.py:139-147 and 149, in a worker thread: the engine ends, then the
\* extension test and the two os.path.exists tests
download_with_yt_dlp(r) ==
    /\ req[r].pc = "extract"
    /\ \/ \E e \in ExcDetails :
             /\ req' = [req EXCEPT ![r].pc = "returned", ![r].raised = e]
             /\ UNCHANGED download_dir
       \/ \E o \in EngineResults :
             LET path == FilePath(req[r].video_id, o.reported)
                 new_path == Mp4Name(path)
                 dir == download_dir \cup {FilePath(req[r].video_id, o.actual)}
             IN /\ download_dir' = dir
                /\ IF EndsWithMp4(path)
                     THEN req' = [req EXCEPT ![r].pc = "returned", ![r].path = path]
                     ELSE IF path \in dir /\ new_path \notin dir
                            THEN req' = [req EXCEPT ![r].pc = "rename", ![r].path = path]
                            ELSE req' = [req EXCEPT ![r].pc = "returned",
                                                    ![r].path = new_path]
    /\ UNCHANGED <<bot, loop, hook, nreq, nevt, resolved, served>>

\* main.py:148-152  os.rename(path, new_path); an OSError is swallowed and
\* leaves path as it was
rename(r) ==
    /\ req[r].pc = "rename"
    /\ LET path == req[r].path
           new_path == Mp4Name(path)
       IN IF path \in download_dir
            THEN /\ download_dir' = (download_dir \ {path}) \cup {new_path}
                 /\ req' = [req EXCEPT ![r].pc = "returned", ![r].path = new_path]
            ELSE /\ UNCHANGED download_dir
                 /\ req' = [req EXCEPT ![r].pc = "returned"]
    /\ UNCHANGED <<bot, loop, hook, nreq, nevt, resolved, served>>

\* main.py:202-213  the handler resumes on the loop: shutil.move, FileResponse,
\* or the except branch.  A FileResponse of a missing file fails when sent.
deliver(r) ==
    /\ req[r].pc = "returned"
    /\ loop = NoOne
    /\ IF req[r].raised # NoDetail
         THEN /\ req' = [req EXCEPT ![r].pc = "done", ![r].status = 500,
                                    ![r].detail = req[r].raised]
              /\ UNCHANGED <<download_dir, served>>
         ELSE LET path == req[r].path
                  target == FilePath(req[r].video_id, "mp4")
                  moved == path \in download_dir
                  dir == IF moved THEN (download_dir \ {path}) \cup {target}
                                  ELSE download_dir
                  emerg == IF moved THEN target ELSE path
                  ok == emerg \in dir
              IN /\ download_dir' = dir
                 /\ req' = [req EXCEPT ![r].pc = "done", ![r].sent = emerg,
                                       ![r].status = IF ok THEN 200 ELSE 500]
                 /\ served' = IF ok THEN served \cup {req[r].video_id} ELSE served
    /\ UNCHANGED <<bot, loop, hook, nreq, nevt, resolved>>

\* the response has gone out; the handler's locals are gone
finish_request(r) ==
    /\ req[r].pc = "done"
    /\ req' = [req EXCEPT ![r] = IdleReq]
    /\ UNCHANGED <<bot, loop, download_dir, hook, nreq, nevt, resolved, served>>

----------------------------------------------------------------------------
(* GET /download *)

\* main.py:169-172  up to the await of run_in_executor
download_info(r) ==
    /\ req[r].pc = "idle"
    /\ loop = NoOne
    /\ nreq < MaxRequests
    /\ nreq' = nreq + 1
    /\ req' = [req EXCEPT ![r].pc = "info"]
    /\ UNCHANGED <<bot, loop, download_dir, hook, nevt, resolved, served>>

\* main.py:172-183  yt_dlp_get_info ends; the metadata or HTTPException(500, str(e))
download_info_done(r) ==
    /\ req[r].pc = "info"
    /\ loop = NoOne
    /\ \/ req' = [req EXCEPT ![r].pc = "done", ![r].status = 200]
       \/ \E e \in ExcDetails :
             req' = [req EXCEPT ![r].pc = "done", ![r].status = 500, ![r].detail = e]
    /\ UNCHANGED <<bot, loop, download_dir, hook, nreq, nevt, resolved, served>>

----------------------------------------------------------------------------
(* POST /telegram/webhook: message texts *)

\* A text is a sequence of words; Needles(w) are the substrings the code
\* searches for that the word w contains.
Needles(w) ==
    CASE w = "youtube" -> {"youtube"}
      [] w = "https://youtu.be/abab" -> {"youtu.be"}
      [] w = "https://www.instagram.com/reel/abab" ->
             {"instagram", "instagram.com", "reel/abab"}
      [] w = "https://www.instagram.com/" -> {"instagram", "instagram.com"}
      [] OTHER -> {}

Texts == { <<>>, <<"/start">>, <<"hello">>, <<"hello", "youtube">>,
           <<"https://youtu.be/abab">>, <<"https://example.com/abab">>,
           <<"https://www.instagram.com/reel/abab">>,
           <<"https://www.instagram.com/">> }

\* x in text
Contains(text, x) == \E i \in 1..Len(text) : x \in Needles(text[i])

\* main.py:239  text.startswith("/start")
StartsWithStart(text) == Len(text) > 0 /\ text[1] = "/start"

\* main.py:243  the words that make a text a link for the handler
MediaWords == {"youtube", "youtu.be", "instagram", "tiktok", "facebook"}
MentionsMedia(text) == \E x \in MediaWords : Contains(text, x)

\* main.py:253  re.search(r"(?:reel|p)/([A-Za-z0-9_-]+)", text)
HasShortcode(text) == Contains(text, "reel/abab")

\* main.py:232-237  the JSON bodies: no message, a message without chat, a
\* message with a chat and a text (absent text reads as the empty text)
Payloads == { [kind |-> "no_message", text |-> <<>>],
              [kind |-> "no_chat", text |-> <<>>] }
            \cup { [kind |-> "text", text |-> t] : t \in Texts }

Msg(kind, detail, ok) == [kind |-> kind, detail |-> detail, ok |-> ok]

IdleHook == [pc |-> "idle", text |-> <<>>, out |-> <<>>, status |-> 0,
             invoked |-> FALSE, failed |-> FALSE]

\* the handler returns a JSONResponse with this status, or ends in an
\* unhandled exception, which the framework answers with 500
Ended(h, status) == [h EXCEPT !.pc = "done", !.status = status]

\* a bot.send_* call outside the try block (main.py:240, 244, 247)
Send(h, kind, ok) == [h EXCEPT !.out = Append(@, Msg(kind, NoDetail, ok))]

\* Except with the exception swallowed: nothing is sent to the chat
ExceptSilent(h, e) == { Ended(h, 200) }

\* main.py:281-284  the except branch: the text carries str(e)
Except(h, e) ==
    { Ended([h EXCEPT !.out = Append(@, Msg("error_fetching", e, ok))],
            IF ok THEN 200 ELSE 500) : ok \in BOOLEAN }

\* a bot.send_* call inside the try block (main.py:255, 265, 277, 279)
TrySend(h, kind) ==
    { Ended(Send(h, kind, TRUE), 200) }
    \cup UNION { Except(Send(h, kind, FALSE), e) : e \in ExcDetails }

\* main.py:228-269  from the request to the first long call
WebhookHead(p) ==
    LET h == [IdleHook EXCEPT !.text = p.text]
    IN IF ~bot THEN { Ended(h, 500) }
       ELSE IF p.kind = "no_message" THEN { Ended(h, 200) }
       ELSE IF p.kind = "no_chat" THEN { Ended(h, 500) }
       ELSE IF StartsWithStart(p.text)
              THEN { Ended(Send(h, "greeting", ok), IF ok THEN 200 ELSE 500)
                       : ok \in BOOLEAN }
       ELSE IF ~MentionsMedia(p.text)
              THEN { Ended(Send(h, "help", ok), IF ok THEN 200 ELSE 500)
                       : ok \in BOOLEAN }
       ELSE { Ended(Send(h, "fetching", FALSE), 500) }
            \cup (LET g == Send(h, "fetching", TRUE)
                  IN IF Contains(p.text, "instagram.com")
                       THEN IF ~HasShortcode(p.text)
                              THEN TrySend(g, "invalid_instagram")
                              ELSE { [g EXCEPT !.pc = "instaloader", !.invoked = TRUE] }
                       ELSE { [g EXCEPT !.pc = "yt_dlp_get_info", !.invoked = TRUE] })

\* main.py:228-269
telegram_webhook(c, p) ==
    /\ hook[c].pc = "idle"
    /\ loop = NoOne
    /\ nevt < MaxEvents
    /\ nevt' = nevt + 1
    /\ \E h \in WebhookHead(p) :
          /\ hook' = [hook EXCEPT ![c] = h]
          /\ loop' = IF h.pc = "instaloader" THEN c ELSE NoOne
    /\ UNCHANGED <<bot, download_dir, req, nreq, resolved, served>>

\* main.py:258-266  instaloader.Post.from_shortcode is called in the handler
\* itself: the loop is the handler's until it ends
instaloader_done(c) ==
    /\ hook[c].pc = "instaloader"
    /\ loop = c
    /\ loop' = NoOne
    /\ \E h \in TrySend(hook[c], "photo")
                \cup UNION { Except([hook[c] EXCEPT !.failed = TRUE], e)
                               : e \in ExcDetails } :
          hook' = [hook EXCEPT ![c] = h]
    /\ UNCHANGED <<bot, download_dir, req, nreq, nevt, resolved, served>>

\* main.py:269-284  yt_dlp_get_info ends in the executor and the handler resumes
yt_dlp_get_info_done(c) ==
    /\ hook[c].pc = "yt_dlp_get_info"
    /\ loop = NoOne
    /\ \/ /\ \E e \in ExcDetails :
                \E h \in Except([hook[c] EXCEPT !.failed = TRUE], e) :
                   hook' = [hook EXCEPT ![c] = h]
          /\ UNCHANGED resolved
       \/ \E vid_id \in ValidIds, thumb \in BOOLEAN :
             /\ \E h \in TrySend(hook[c], IF thumb THEN "photo" ELSE "link") :
                   hook' = [hook EXCEPT ![c] = h]
             /\ resolved' = resolved \cup {vid_id}
    /\ UNCHANGED <<bot, loop, download_dir, req, nreq, nevt, served>>

\* the response has gone out; the handler's locals are gone
finish_webhook(c) ==
    /\ hook[c].pc = "done"
    /\ hook' = [hook EXCEPT ![c] = IdleHook]
    /\ UNCHANGED <<bot, loop, download_dir, req, nreq, nevt, resolved, served>>

----------------------------------------------------------------------------
(* Specifications *)

Init ==
    /\ bot \in BOOLEAN
    /\ loop = NoOne
    /\ download_dir = {}
    /\ req = [r \in Reqs |-> IdleReq]
    /\ hook = [c \in Chats |-> IdleHook]
    /\ nreq = 0
    /\ nevt = 0
    /\ resolved = {}
    /\ served = {}

\* a step of the HTTP request r
RequestStep(r) ==
    \/ \E video_id \in VideoIds : stream_file(r, video_id)
    \/ download_with_yt_dlp(r)
    \/ rename(r)
    \/ deliver(r)
    \/ download_info(r)
    \/ download_info_done(r)
    \/ finish_request(r)

\* a step of the webhook delivery for chat c
WebhookStep(c) ==
    \/ \E p \in Payloads : telegram_webhook(c, p)
    \/ instaloader_done(c)
    \/ yt_dlp_get_info_done(c)
    \/ finish_webhook(c)

NextFile == \E r \in Reqs : RequestStep(r)

NextHook == \E c \in Chats : WebhookStep(c)

\* one HTTP request and one webhook delivery at a time, side by side
Next == RequestStep("r1") \/ WebhookStep("c1")

\* HTTP requests and webhook deliveries together
Spec == Init /\ [][Next]_vars

\* only /file and /download requests arrive
SpecFile == Init /\ [][NextFile]_vars

\* only webhook deliveries arrive
SpecHook == Init /\ [][NextHook]_vars

----------------------------------------------------------------------------
(* Properties *)

Downloading == {"extract", "rename", "returned"}
Resolving == {"instaloader", "yt_dlp_get_info"}

Last(seq) == seq[Len(seq)]

\* a text that is one word of the form scheme://host/path
IsUrl(text) ==
    /\ Len(text) = 1
    /\ text[1] \in { "https://youtu.be/abab", "https://example.com/abab",
                     "https://www.instagram.com/reel/abab",
                     "https://www.instagram.com/" }

\* C1: once every /file request has ended, the download directory holds no
\* artifact: each file a download wrote was removed after its delivery attempt.
C1_ArtifactsRemoved ==
    (\A r \in Reqs : req[r].pc = "idle") => download_dir = {}

\* C2: every webhook delivery is answered with HTTP 200, whatever happened
\* inside the handler.
C2_Always200 ==
    \A c \in Chats : hook[c].pc = "done" => hook[c].status = 200

\* C3: no text sent to a chat and no body returned by /download or /file
\* carries the content of a raised exception.
C3_NoRawDetail ==
    /\ \A c \in Chats : \A i \in 1..Len(hook[c].out) :
          hook[c].out[i].detail = NoDetail
    /\ \A r \in Reqs : req[r].detail = NoDetail

\* C4: for a text that is not a URL, metadata resolution (yt_dlp_get_info or
\* the Instagram lookup) is never invoked.
C4_NonUrlNotResolved ==
    \A c \in Chats : hook[c].invoked => IsUrl(hook[c].text)

\* C5: while a metadata resolution is in progress for one chat, the event
\* loop is free to accept an event for another chat.
C5_LoopFreeWhileResolving ==
    \A c \in Chats : hook[c].pc \in Resolving => loop = NoOne

\* C6: a download_with_yt_dlp call is preceded by a webhook submission whose
\* metadata resolution succeeded for the id being downloaded.
C6_DownloadHasPendingUrl ==
    \A r \in Reqs : req[r].pc \in Downloading => req[r].video_id \in resolved

C8_OneMp4Artifact ==
    [][\A r \in Reqs :
          (/\ req[r].pc \in {"extract", "rename"}
           /\ req'[r].pc = "returned"
           /\ req'[r].raised = NoDetail)
          => /\ EndsWithMp4(req'[r].path)
             /\ req'[r].path \in download_dir'
             /\ \A ext \in Exts \ {"mp4"} :
                   FilePath(req'[r].video_id, ext) \notin download_dir']_vars

\* C9: a /file request starts a download only when {video_id}.mp4 is absent
\* at request time, and once a request has downloaded and served an id, every
\* later request for that id is answered from {video_id}.mp4 with no download.
C9_ServeCachedElseDownload ==
    /\ [][\A r \in Reqs :
             (req[r].pc = "idle" /\ req'[r].pc = "extract")
             => FilePath(req'[r].video_id, "mp4") \notin download_dir]_vars
    /\ [][\A r \in Reqs :
             (/\ req[r].pc = "idle"
              /\ req'[r].pc # "idle"
              /\ req'[r].video_id \in served)
             => /\ req'[r].pc = "done"
                /\ req'[r].cached
                /\ req'[r].status = 200
                /\ req'[r].sent = FilePath(req'[r].video_id, "mp4")
                /\ req'[r].sent \in download_dir'
                /\ download_dir' = download_dir]_vars

\* C9 witness: a request answered from the cache after an earlier request
\* downloaded and served the same id
C9_Witness ==
    \E r \in Reqs : /\ req[r].pc = "done"
                    /\ req[r].cached
                    /\ req[r].video_id \in served

\* C10: no two requests run a download for the same id at once, and no
\* request serves {id}.mp4 from the cache while another request is still
\* downloading, renaming or moving a file for that id.
C10_OneDownloadPerPath ==
    \A r1, r2 \in Reqs :
       (r1 # r2 /\ req[r2].pc \in Downloading
        /\ req[r1].video_id = req[r2].video_id)
       => /\ req[r1].pc \notin Downloading
          /\ ~(req[r1].pc = "done" /\ req[r1].cached)

====
